---------------------------- MODULE Spec2Model ----------------------------
(***************************************************************************)
(* Model of the hybrid hot/cold lane dispatcher of main_tts.py             *)
(* (create_speech and the three functions it runs on worker threads).      *)
(*                                                                         *)
(* The handler is an asyncio coroutine: the code between two awaits runs   *)
(* atomically with respect to the other requests, so each action of a      *)
(* request below is one such segment.  The functions handed to             *)
(* asyncio.to_thread run on worker threads (the cold lane and ffmpeg in    *)
(* child processes); their effects on the file system are separate steps   *)
(* that interleave with everything else.                                   *)
(***************************************************************************)
EXTENDS Integers, Sequences, FiniteSets, TLC

\* Number of requests dispatched in one execution.
NumReq == 2

Reqs == 1..NumReq
\* The names tempfile.NamedTemporaryFile chooses from (the random part).
TmpNames == {"k3x9", "q_7a"}
None == "None"
\* custom_wav_path of a request without an upload
NoUpload == None
\* a request the handler has not answered yet
NoResponse == [status |-> 0]

(***************************************************************************)
(* Request inputs (SpeechRequest and the optional custom_voice_file).      *)
(* A voice is a sequence of characters so that str.lower() can be applied. *)
(***************************************************************************)
Texts == {"a", "ab"}
Voices == {<<"C">>, <<"b", "c">>}
Formats == {"wav", "mp3"}
Speeds == {"1.0"}
Languages == {"en"}
\* stderr captured from a failing child process
Stderrs == {"CUDA out of memory"}
\* message of an exception raised by tts_to_file
HotErrors == {"CUDA error"}

\* os.environ.get("TTS_MODEL", DEFAULT_MODEL)
DEFAULT_MODEL == "tts_models/multilingual/multi-dataset/xtts_v2"
model_name == DEFAULT_MODEL

AUDIO_CACHE_DIR == "assets/cache"
VOICE_ASSET_DIR == "assets/voices"

VOICE_MAP ==
  [v \in {"alloy", "echo", "fable", "onyx", "nova", "shimmer", "jarvis", "friday", "hal"} |->
     CASE v = "alloy"   -> "standard/alloy.wav"
       [] v = "echo"    -> "standard/echo.wav"
       [] v = "fable"   -> "standard/fable.wav"
       [] v = "onyx"    -> "standard/onyx.wav"
       [] v = "nova"    -> "standard/nova.wav"
       [] v = "shimmer" -> "standard/shimmer.wav"
       [] v = "jarvis"  -> "elite/paul_bettany.wav"
       [] v = "friday"  -> "elite/Friday.wav"
       [] v = "hal"     -> "elite/hal9000.wav"]

\* The voice reference files present under VOICE_ASSET_DIR.
VoiceFiles == {"assets/voices/standard/alloy.wav"}

SpeechRequest ==
  [input : Texts, voice : Voices, language : Languages,
   response_format : Formats, speed : Speeds, custom_voice_file : BOOLEAN]

Request(text, voice, fmt, upload) ==
  [input |-> text, voice |-> voice, language |-> "en", response_format |-> fmt,
   speed |-> "1.0", custom_voice_file |-> upload]

\* The requests the clients send: two different requests with one fingerprint,
\* and a request with an uploaded reference.
Payloads ==
  { Request("ab", <<"C">>, "wav", FALSE),
    Request("a", <<"b", "c">>, "wav", FALSE),
    Request("a", <<"C">>, "mp3", TRUE) }

(***************************************************************************)
(* Pure functions of create_speech.                                        *)
(***************************************************************************)
LowerChar(c) ==
  CASE c = "A" -> "a" [] c = "B" -> "b" [] c = "C" -> "c" [] OTHER -> c

RECURSIVE lower(_)
lower(s) == IF s = <<>> THEN "" ELSE LowerChar(Head(s)) \o lower(Tail(s))

path_join(dir, name) == dir \o "/" \o name

\* hashlib.md5(x.encode()).hexdigest(): a digest, taken to be free of collisions
md5(x) == "md5(" \o x \o ")"

\* tempfile.NamedTemporaryFile(delete=False, suffix=".wav").name
CustomPath(n) == "/tmp/tmp" \o n \o ".wav"

RECURSIVE join(_)
\* the characters of a voice name as one string, case kept
join(s) == IF s = <<>> THEN "" ELSE Head(s) \o join(Tail(s))

\* a voice identifier taken from the request as it was sent (no .lower())
voice_id_raw(q, custom) ==
  IF custom # NoUpload THEN md5(CustomPath(custom)) ELSE join(q.voice)

\* lines 230-236: the voice identifier that enters the cache key
voice_id(q, custom) ==
  IF custom # NoUpload THEN md5(CustomPath(custom)) ELSE lower(q.voice)

\* a resolution without the existence check of lines 238-239
speaker_wav_unchecked(q, custom) ==
  IF custom # NoUpload THEN CustomPath(custom)
  ELSE LET key == lower(q.voice)
           v_file == IF key \in DOMAIN VOICE_MAP THEN VOICE_MAP[key] ELSE VOICE_MAP["alloy"]
       IN path_join(VOICE_ASSET_DIR, v_file)

\* lines 230-239: the reference audio handed to the lane
speaker_wav(q, custom) ==
  IF custom # NoUpload THEN CustomPath(custom)
  ELSE LET key == lower(q.voice)
           v_file == IF key \in DOMAIN VOICE_MAP THEN VOICE_MAP[key] ELSE VOICE_MAP["alloy"]
           mapped == path_join(VOICE_ASSET_DIR, v_file)
       IN IF mapped \in VoiceFiles THEN mapped
          ELSE path_join(VOICE_ASSET_DIR, VOICE_MAP["alloy"])

\* lines 234-239: a named voice that is not in VOICE_MAP, or whose mapped file is
\* missing, so that the reference becomes the default one
fell_back(q) ==
  \/ lower(q.voice) \notin DOMAIN VOICE_MAP
  \/ path_join(VOICE_ASSET_DIR, VOICE_MAP[lower(q.voice)]) \notin VoiceFiles

\* line 241
lang(q) == IF q.language # "" THEN q.language ELSE "en"

\* line 243: the string that is digested
fingerprint(q, custom) ==
  q.input \o voice_id(q, custom) \o q.speed \o q.response_format \o lang(q) \o model_name

cache_key(q, custom) == md5(fingerprint(q, custom))

\* line 244
final_output_path(q, custom) ==
  path_join(AUDIO_CACHE_DIR, cache_key(q, custom) \o "." \o q.response_format)

(***************************************************************************)
(* State.                                                                  *)
(***************************************************************************)
VARIABLES
  tts_hot_worker,   \* TRUE when load_hot_worker succeeded at startup
  model_lock,       \* threading.Lock: TRUE when locked
  pc,               \* position of each request's coroutine
  req,              \* the parsed SpeechRequest of each request
  custom_wav_path,  \* the temp name of its upload, or NoUpload
  lane,             \* the lane the request invoked: "none", "warm", "cold"
  thr,              \* the worker thread of the request: "none", inside run_tts_hot_lane
                    \* ("hot"), run_tts_cold_lane ("cold") or convert_audio ("convert",
                    \* "writing" once the output is open), returned ("ok"), raised ("err")
  exc,              \* the exception that function raised (its message), or None
  response,         \* what the handler returned or raised
  temp_wav,         \* whether tts_<uuid>.wav of the request exists
  rm_errors,        \* the os.remove calls of the request that raised (swallowed)
  uploads,          \* temp directory: name -> the request whose upload it holds, 0 if absent
  cache             \* AUDIO_CACHE_DIR: path -> state of the file, for existing files

vars == <<tts_hot_worker, model_lock, pc, req, custom_wav_path, lane, thr, exc,
          response, temp_wav, rm_errors, uploads, cache>>

\* os.path.exists on a path of the cache directory
exists(p) == p \in DOMAIN cache

final(r) == final_output_path(req[r], custom_wav_path[r])

\* the requests whose transcoder has the file at p open for writing
writers(p) == {r \in Reqs : thr[r] = "writing" /\ final(r) = p}

Init ==
  /\ tts_hot_worker \in BOOLEAN
  /\ model_lock = FALSE
  /\ pc = [r \in Reqs |-> "idle"]
  /\ req = [r \in Reqs |-> None]
  /\ custom_wav_path = [r \in Reqs |-> NoUpload]
  /\ lane = [r \in Reqs |-> "none"]
  /\ thr = [r \in Reqs |-> "none"]
  /\ exc = [r \in Reqs |-> None]
  /\ response = [r \in Reqs |-> NoResponse]
  /\ temp_wav = [r \in Reqs |-> FALSE]
  /\ rm_errors = [r \in Reqs |-> {}]
  /\ uploads = [n \in TmpNames |-> 0]
  /\ cache = <<>>

(***************************************************************************)
(* create_speech, lines 214-224 (up to the last await of the parsing):     *)
(* the request is parsed and an upload gets its temporary file, under a    *)
(* name no existing file has.  Requests are numbered in order of arrival.  *)
(***************************************************************************)
Receive(r) ==
  /\ pc[r] = "idle"
  /\ IF r = 1 THEN TRUE ELSE pc[r - 1] # "idle"
  /\ \E q \in Payloads :
       /\ req' = [req EXCEPT ![r] = q]
       /\ IF q.custom_voice_file
          THEN \E n \in {m \in TmpNames : uploads[m] = 0} :
                 /\ custom_wav_path' = [custom_wav_path EXCEPT ![r] = n]
                 /\ uploads' = [uploads EXCEPT ![n] = r]
          ELSE UNCHANGED <<custom_wav_path, uploads>>
  /\ pc' = [pc EXCEPT ![r] = "parsed"]
  /\ UNCHANGED <<tts_hot_worker, model_lock, lane, thr, exc, response, temp_wav,
                 rm_errors, cache>>

(***************************************************************************)
(* create_speech, lines 225-254: one segment without an await.  The cache  *)
(* lookup, the attempt on the lock and the hand-over of the lane function  *)
(* to a worker thread happen in one step.                                  *)
(***************************************************************************)
FileResponse(path, line) == [status |-> 200, path |-> path, line |-> line]
HTTPException(detail) == [status |-> 500, detail |-> detail]

\* a handler that finds the cached file and synthesizes all the same
CacheHit_resynth(r) ==
  /\ pc[r] = "parsed"
  /\ final(r) \in DOMAIN cache
  /\ lane' = [lane EXCEPT ![r] = "cold"]
  /\ pc' = [pc EXCEPT ![r] = "cold"]
  /\ thr' = [thr EXCEPT ![r] = "cold"]
  /\ UNCHANGED <<tts_hot_worker, model_lock, req, custom_wav_path, exc, response,
                 temp_wav, rm_errors, uploads, cache>>

\* line 246: the lookup hits and the handler returns
CacheHit(r) ==
  /\ pc[r] = "parsed"
  /\ exists(final(r))
  /\ pc' = [pc EXCEPT ![r] = "done"]
  /\ response' = [response EXCEPT ![r] = FileResponse(final(r), 246)]
  /\ UNCHANGED <<tts_hot_worker, model_lock, req, custom_wav_path, lane, thr, exc,
                 temp_wav, rm_errors, uploads, cache>>

\* a lock whose non-blocking acquire always reports success
acquire_always(locked) == TRUE

\* model_lock.acquire(blocking=False) on a lock in state `locked`: its result
acquire(locked) == ~locked

\* line 251: the condition of the warm branch
warm_branch == tts_hot_worker /\ acquire(model_lock)

\* lines 251-252: the lock is taken and run_tts_hot_lane handed to a thread
RouteWarm(r) ==
  /\ pc[r] = "parsed"
  /\ ~exists(final(r))
  /\ warm_branch
  /\ model_lock' = TRUE
  /\ lane' = [lane EXCEPT ![r] = "warm"]
  /\ pc' = [pc EXCEPT ![r] = "warm"]
  /\ thr' = [thr EXCEPT ![r] = "hot"]
  /\ UNCHANGED <<tts_hot_worker, req, custom_wav_path, exc, response, temp_wav,
                 rm_errors, uploads, cache>>

\* a handler that takes the cold lane only when no engine is loaded, and otherwise
\* waits for the lock
RouteCold_blocking(r) ==
  /\ pc[r] = "parsed"
  /\ final(r) \notin DOMAIN cache
  /\ ~tts_hot_worker
  /\ lane' = [lane EXCEPT ![r] = "cold"]
  /\ pc' = [pc EXCEPT ![r] = "cold"]
  /\ thr' = [thr EXCEPT ![r] = "cold"]
  /\ UNCHANGED <<tts_hot_worker, model_lock, req, custom_wav_path, exc, response,
                 temp_wav, rm_errors, uploads, cache>>

\* a handler that also sends a request to the cold lane when its voice fell back to
\* the default reference
RouteCold_on_fallback(r) ==
  /\ pc[r] = "parsed"
  /\ ~exists(final(r))
  /\ ~warm_branch \/ (custom_wav_path[r] = NoUpload /\ fell_back(req[r]))
  /\ lane' = [lane EXCEPT ![r] = "cold"]
  /\ pc' = [pc EXCEPT ![r] = "cold"]
  /\ thr' = [thr EXCEPT ![r] = "cold"]
  /\ UNCHANGED <<tts_hot_worker, model_lock, req, custom_wav_path, exc, response,
                 temp_wav, rm_errors, uploads, cache>>

\* line 254: run_tts_cold_lane handed to a thread
RouteCold(r) ==
  /\ pc[r] = "parsed"
  /\ ~exists(final(r))
  /\ ~warm_branch
  /\ lane' = [lane EXCEPT ![r] = "cold"]
  /\ pc' = [pc EXCEPT ![r] = "cold"]
  /\ thr' = [thr EXCEPT ![r] = "cold"]
  /\ UNCHANGED <<tts_hot_worker, model_lock, req, custom_wav_path, exc, response,
                 temp_wav, rm_errors, uploads, cache>>

(***************************************************************************)
(* The lane functions on their worker thread.  temp_wav is private to the  *)
(* request, so writing it and returning are one step; a failing call may   *)
(* or may not leave the file behind.                                       *)
(***************************************************************************)
\* run_tts_hot_lane / run_tts_cold_lane return: the waveform is written
LaneReturn(r) ==
  /\ thr[r] \in {"hot", "cold"}
  /\ thr' = [thr EXCEPT ![r] = "ok"]
  /\ temp_wav' = [temp_wav EXCEPT ![r] = TRUE]
  /\ UNCHANGED <<tts_hot_worker, model_lock, pc, req, custom_wav_path, lane, exc,
                 response, rm_errors, uploads, cache>>

\* line 197: tts_to_file raises
HotRaise(r) ==
  /\ thr[r] = "hot"
  /\ \E e \in HotErrors, left \in BOOLEAN :
       /\ exc' = [exc EXCEPT ![r] = e]
       /\ temp_wav' = [temp_wav EXCEPT ![r] = left]
  /\ thr' = [thr EXCEPT ![r] = "err"]
  /\ UNCHANGED <<tts_hot_worker, model_lock, pc, req, custom_wav_path, lane,
                 response, rm_errors, uploads, cache>>

\* line 210: the message of the exception for a child that exited non-zero
cold_error(stderr) == "Cold Lane Subprocess failed: " \o stderr

\* lines 208-210: the child process exits with a non-zero code
ColdExitNonZero(r) ==
  /\ thr[r] = "cold"
  /\ \E stderr \in Stderrs, left \in BOOLEAN :
       /\ exc' = [exc EXCEPT ![r] = cold_error(stderr)]
       /\ temp_wav' = [temp_wav EXCEPT ![r] = left]
  /\ thr' = [thr EXCEPT ![r] = "err"]
  /\ UNCHANGED <<tts_hot_worker, model_lock, pc, req, custom_wav_path, lane,
                 response, rm_errors, uploads, cache>>

(***************************************************************************)
(* create_speech resumes after the lane call (lines 252-257, 258-265).     *)
(***************************************************************************)
\* a release that is skipped when the call raised (no finally)
release_on_success(locked, outcome) == IF outcome = "ok" THEN FALSE ELSE locked

\* line 253: the lock after the warm call ended with `outcome` ("ok" or "err")
release(locked, outcome) == FALSE

\* the lock after the await of line 252 or 254 returned or raised
lock_after_lane(p, outcome) ==
  IF p = "warm" THEN release(model_lock, outcome) ELSE model_lock

\* a cleanup that leaves the waveform where it is
temp_wav_kept(present, removed) == present

\* lines 260-262: temp_wav after the cleanup; `removed` is whether os.remove worked
temp_wav_after(present, removed) == present /\ ~removed

\* lines 263-265: the temp directory after the cleanup of the upload of r
uploads_after(r, removed) ==
  IF custom_wav_path[r] # NoUpload /\ uploads[custom_wav_path[r]] # 0 /\ removed
  THEN [uploads EXCEPT ![custom_wav_path[r]] = 0]
  ELSE uploads

\* the os.remove calls of lines 261 and 264 that raised
rm_errors_after(r, removed_wav, removed_custom) ==
  (IF temp_wav[r] /\ ~removed_wav THEN {"temp_wav"} ELSE {})
    \cup (IF custom_wav_path[r] # NoUpload /\ uploads[custom_wav_path[r]] # 0
             /\ ~removed_custom
          THEN {"custom_wav_path"} ELSE {})

\* lines 258-265: the finally block of the handler
Finally(r) ==
  \E removed_wav, removed_custom \in BOOLEAN :
    /\ temp_wav' = [temp_wav EXCEPT ![r] = temp_wav_after(temp_wav[r], removed_wav)]
    /\ uploads' = uploads_after(r, removed_custom)
    /\ rm_errors' = [rm_errors EXCEPT ![r] = rm_errors_after(r, removed_wav, removed_custom)]

\* lines 252-253 or 254, then 256: the lane returned, convert_audio is handed to a thread
LaneDone(r) ==
  /\ pc[r] \in {"warm", "cold"}
  /\ thr[r] = "ok"
  /\ model_lock' = lock_after_lane(pc[r], "ok")
  /\ pc' = [pc EXCEPT ![r] = "conv"]
  /\ thr' = [thr EXCEPT ![r] = "convert"]
  /\ UNCHANGED <<tts_hot_worker, req, custom_wav_path, lane, exc, response, temp_wav,
                 rm_errors, uploads, cache>>

\* a handler that ignores the exception of the lane and goes on to convert_audio
LaneFailed_swallowed(r) ==
  /\ pc[r] \in {"warm", "cold"}
  /\ thr[r] = "err"
  /\ model_lock' = IF pc[r] = "warm" THEN FALSE ELSE model_lock
  /\ pc' = [pc EXCEPT ![r] = "conv"]
  /\ thr' = [thr EXCEPT ![r] = "convert"]
  /\ UNCHANGED <<tts_hot_worker, req, custom_wav_path, lane, exc, response, temp_wav,
                 rm_errors, uploads, cache>>

\* a handler that answers a failed warm call with a cold-lane attempt
LaneFailed_fallback(r) ==
  /\ pc[r] \in {"warm", "cold"}
  /\ thr[r] = "err"
  /\ model_lock' = IF pc[r] = "warm" THEN FALSE ELSE model_lock
  /\ IF pc[r] = "warm"
     THEN /\ lane' = [lane EXCEPT ![r] = "cold"]
          /\ pc' = [pc EXCEPT ![r] = "cold"]
          /\ thr' = [thr EXCEPT ![r] = "cold"]
          /\ UNCHANGED <<response, temp_wav, rm_errors, uploads>>
     ELSE /\ Finally(r)
          /\ pc' = [pc EXCEPT ![r] = "failed"]
          /\ thr' = [thr EXCEPT ![r] = "none"]
          /\ response' = [response EXCEPT ![r] = HTTPException(exc[r])]
          /\ UNCHANGED lane
  /\ UNCHANGED <<tts_hot_worker, req, custom_wav_path, exc, cache>>

\* lines 252-253 or 254, then 257-265: the lane raised, the handler cleans up and fails
LaneFailed(r) ==
  /\ pc[r] \in {"warm", "cold"}
  /\ thr[r] = "err"
  /\ model_lock' = lock_after_lane(pc[r], "err")
  /\ Finally(r)
  /\ pc' = [pc EXCEPT ![r] = "failed"]
  /\ thr' = [thr EXCEPT ![r] = "none"]
  /\ response' = [response EXCEPT ![r] = HTTPException(exc[r])]
  /\ UNCHANGED <<tts_hot_worker, req, custom_wav_path, lane, exc, cache>>

(***************************************************************************)
(* convert_audio on its worker thread (lines 169-189).  shutil.copy and    *)
(* ffmpeg -y both open the output path for writing, which creates or       *)
(* truncates the file, then write it, then close it.                       *)
(***************************************************************************)
\* the message of the exception for a missing input (line 179, or shutil.copy's)
missing_input(fmt) ==
  IF fmt = "wav" THEN "[Errno 2] No such file or directory" ELSE "Input WAV file missing"

\* line 189, or the OSError of shutil.copy
convert_error(fmt, stderr) ==
  IF fmt = "wav" THEN "[Errno 28] No space left on device"
  ELSE "FFmpeg failed (code 1): " \o stderr

\* the file at the output path once a writer has opened it
opened(p, r) ==
  [st |-> "partial", by |-> (IF exists(p) THEN cache[p].by ELSE {}) \cup {r}]

\* the cache directory after request r opened path p for writing
cache_open(p, r) == [x \in DOMAIN cache \cup {p} |-> IF x = p THEN opened(p, r) ELSE cache[x]]

\* the cache directory after request r closed its complete output
cache_close(p, r) ==
  [cache EXCEPT ![p].st = IF writers(p) \ {r} = {} THEN "complete" ELSE "partial"]

\* lines 171 / 178-187: the input is looked up and the output opened
ConvOpen(r) ==
  /\ thr[r] = "convert"
  /\ IF temp_wav[r]
     THEN /\ cache' = cache_open(final(r), r)
          /\ thr' = [thr EXCEPT ![r] = "writing"]
          /\ UNCHANGED exc
     ELSE /\ thr' = [thr EXCEPT ![r] = "err"]
          /\ exc' = [exc EXCEPT ![r] = missing_input(req[r].response_format)]
          /\ UNCHANGED cache
  /\ UNCHANGED <<tts_hot_worker, model_lock, pc, req, custom_wav_path, lane, response,
                 temp_wav, rm_errors, uploads>>

\* lines 171-172 / 187-188: the output is written in full and convert_audio returns
ConvClose(r) ==
  /\ thr[r] = "writing"
  /\ cache' = cache_close(final(r), r)
  /\ thr' = [thr EXCEPT ![r] = "ok"]
  /\ UNCHANGED <<tts_hot_worker, model_lock, pc, req, custom_wav_path, lane, exc,
                 response, temp_wav, rm_errors, uploads>>

\* lines 171 / 187-189: the copy or ffmpeg fails, before or after opening the output;
\* what it wrote so far stays where it is
ConvFail(r) ==
  /\ thr[r] \in {"convert", "writing"}
  /\ \E stderr \in Stderrs :
       exc' = [exc EXCEPT ![r] = convert_error(req[r].response_format, stderr)]
  /\ thr' = [thr EXCEPT ![r] = "err"]
  /\ UNCHANGED <<tts_hot_worker, model_lock, pc, req, custom_wav_path, lane, response,
                 temp_wav, rm_errors, uploads, cache>>

(***************************************************************************)
(* create_speech resumes after convert_audio (lines 256-267).              *)
(***************************************************************************)
\* a handler whose cleanup lets the error of os.remove escape
ConvDone_strict(r) ==
  /\ pc[r] = "conv"
  /\ thr[r] = "ok"
  /\ Finally(r)
  /\ IF rm_errors'[r] = {}
     THEN /\ pc' = [pc EXCEPT ![r] = "done"]
          /\ response' = [response EXCEPT ![r] = FileResponse(final(r), 267)]
     ELSE /\ pc' = [pc EXCEPT ![r] = "failed"]
          /\ response' = [response EXCEPT ![r] = HTTPException("[Errno 13] Permission denied")]
  /\ thr' = [thr EXCEPT ![r] = "none"]
  /\ UNCHANGED <<tts_hot_worker, model_lock, req, custom_wav_path, lane, exc, cache>>

\* lines 256, 258-265, 267
ConvDone(r) ==
  /\ pc[r] = "conv"
  /\ thr[r] = "ok"
  /\ Finally(r)
  /\ pc' = [pc EXCEPT ![r] = "done"]
  /\ thr' = [thr EXCEPT ![r] = "none"]
  /\ response' = [response EXCEPT ![r] = FileResponse(final(r), 267)]
  /\ UNCHANGED <<tts_hot_worker, model_lock, req, custom_wav_path, lane, exc, cache>>

\* lines 256-265
ConvFailed(r) ==
  /\ pc[r] = "conv"
  /\ thr[r] = "err"
  /\ Finally(r)
  /\ pc' = [pc EXCEPT ![r] = "failed"]
  /\ thr' = [thr EXCEPT ![r] = "none"]
  /\ response' = [response EXCEPT ![r] = HTTPException(exc[r])]
  /\ UNCHANGED <<tts_hot_worker, model_lock, req, custom_wav_path, lane, exc, cache>>

Next ==
  \E r \in Reqs :
    \/ Receive(r)
    \/ CacheHit(r)
    \/ RouteWarm(r)
    \/ RouteCold(r)
    \/ LaneReturn(r)
    \/ HotRaise(r)
    \/ ColdExitNonZero(r)
    \/ LaneDone(r)
    \/ LaneFailed(r)
    \/ ConvOpen(r)
    \/ ConvClose(r)
    \/ ConvFail(r)
    \/ ConvDone(r)
    \/ ConvFailed(r)

Spec == Init /\ [][Next]_vars

\* The executions in which no os.remove of the cleanup raises.
NextRemoveOk == Next /\ \A r \in Reqs : rm_errors'[r] = {}

SpecRemoveOk == Init /\ [][NextRemoveOk]_vars

(***************************************************************************)
(* Properties.                                                             *)
(***************************************************************************)
Completed(r) == pc[r] \in {"done", "failed"}
ColdErrors == {cold_error(e) : e \in Stderrs}

C2_OverflowToCold ==
  /\ [](\A r \in Reqs :
          pc[r] = "parsed" => ENABLED (CacheHit(r) \/ RouteWarm(r) \/ RouteCold(r)))
  /\ [][\A r \in Reqs :
          (/\ pc[r] = "parsed"
           /\ pc'[r] # "parsed"
           /\ final(r) \notin DOMAIN cache
           /\ (model_lock \/ ~tts_hot_worker))
          => (/\ pc'[r] = "cold"
              /\ thr'[r] = "cold"
              /\ lane'[r] = "cold"
              /\ response'[r] = NoResponse)]_vars
  /\ [](\A r, s \in Reqs :
          (/\ r # s
           /\ tts_hot_worker
           /\ pc[r] \in {"warm", "cold"}
           /\ pc[s] \in {"warm", "cold"}
           /\ \A t \in Reqs \ {r, s} : lane[t] = "none")
          => {pc[r], pc[s]} = {"warm", "cold"})

\* C2 witness: with the engine loaded, one request is in the warm call and the one
\* that found the lock held is in the cold lane.
C2_Witness ==
  \E r, s \in Reqs :
    /\ tts_hot_worker
    /\ pc[r] = "warm" /\ lane[r] = "warm"
    /\ pc[s] = "cold" /\ lane[s] = "cold" /\ thr[s] = "cold"

\* C3: a request whose final path exists at the lookup ends in Done with that path,
\* in that one step, with no lane, no transcoder and no change to the lock or the
\* cache; a request answered from the cache never invoked a lane; and a request
\* equal (fields and voice identifier) to one that ended in Done finds the path at
\* its lookup, the path the first one returned.
C3_CacheHitShortCircuit ==
  /\ [][\A r \in Reqs :
          (pc[r] = "parsed" /\ final(r) \in DOMAIN cache /\ pc'[r] # "parsed")
          => (/\ pc'[r] = "done"
              /\ response'[r] = FileResponse(final(r), 246)
              /\ lane'[r] = "none"
              /\ thr'[r] = "none"
              /\ model_lock' = model_lock
              /\ cache' = cache)]_vars
  /\ [](\A r \in Reqs :
          (response[r].status = 200 /\ response[r].line = 246)
          => (pc[r] = "done" /\ lane[r] = "none" /\ thr[r] = "none"))
  /\ [](\A r, s \in Reqs :
          (/\ r # s
           /\ pc[r] = "parsed"
           /\ response[s].status = 200
           /\ req[r] = req[s]
           /\ voice_id(req[r], custom_wav_path[r]) = voice_id(req[s], custom_wav_path[s]))
          => (final(r) \in DOMAIN cache /\ final(r) = response[s].path))

\* C3 witness: a request was answered from the cache with the path that another
\* request produced by synthesis.
C3_Witness ==
  \E r, s \in Reqs :
    /\ response[s].status = 200 /\ response[s].line = 267
    /\ response[r].status = 200 /\ response[r].line = 246
    /\ response[r].path = response[s].path

\* C4 (the claim as stated): whenever a request is at its lookup and the final path
\* of its key exists, the file there is completely written.
C4_LookupNeverPartial ==
  \A r \in Reqs :
    (pc[r] = "parsed" /\ final(r) \in DOMAIN cache) => cache[final(r)].st = "complete"

\* C5 (the claim as stated): when a request has failed, no file that this request
\* wrote exists at the final path of its key.
C5_NoEntryOnFailure ==
  \A r \in Reqs :
    pc[r] = "failed" => ~(final(r) \in DOMAIN cache /\ r \in cache[final(r)].by)

\* C6: once the cold-lane child of a request has exited non-zero, the request is
\* still awaiting the lane or has failed, its transcoder was never started, no file
\* of the cache was written by it, and when it has failed the error it raised is the
\* cold-lane error with the captured stderr.
C6_ColdLaneFailure ==
  \A r \in Reqs :
    (lane[r] = "cold" /\ exc[r] \in ColdErrors)
    => (/\ pc[r] \in {"cold", "failed"}
        /\ thr[r] \in {"err", "none"}
        /\ \A p \in DOMAIN cache : r \notin cache[p].by
        /\ pc[r] = "failed" => response[r] = HTTPException(exc[r]))

\* C6 witness: a request failed in the cold lane and was answered with the error.
C6_Witness ==
  \E r \in Reqs :
    /\ lane[r] = "cold"
    /\ pc[r] = "failed"
    /\ response[r].status = 500
    /\ response[r].detail \in ColdErrors

\* C7: the lock is held exactly while some request awaits its warm call, and the
\* step in which a request leaves the warm call, returned or raised, frees it.
C7_LockReleased ==
  /\ [](model_lock <=> \E r \in Reqs : pc[r] = "warm")
  /\ [][\A r \in Reqs : (pc[r] = "warm" /\ pc'[r] # "warm") => ~model_lock']_vars

\* C7 witness: a request failed in the warm lane and a later one is in the warm call.
C7_Witness ==
  \E r, s \in Reqs :
    /\ pc[r] = "failed" /\ lane[r] = "warm" /\ response[r].detail \in HotErrors
    /\ pc[s] = "warm" /\ thr[s] = "hot"

\* C8 (the claim as stated): after a request that missed the cache has completed,
\* its temporary waveform file does not exist.
C8_TempWavRemoved ==
  \A r \in Reqs : (Completed(r) /\ lane[r] # "none") => ~temp_wav[r]

\* C8 (amended): after a request that missed the cache has completed, its temporary
\* waveform file does not exist, unless the os.remove of the cleanup raised.
C8_TempWavRemovedUnlessRemoveFailed ==
  \A r \in Reqs :
    (Completed(r) /\ lane[r] # "none") => (~temp_wav[r] \/ "temp_wav" \in rm_errors[r])

\* C8 witness: one request ended in Done with its waveform removed, another failed
\* with the waveform left behind by a failed removal.
C8_Witness ==
  \E r, s \in Reqs :
    /\ pc[r] = "done" /\ response[r].line = 267 /\ ~temp_wav[r] /\ rm_errors[r] = {}
    /\ pc[s] = "failed" /\ lane[s] # "none" /\ temp_wav[s]

\* C9 (the claim as stated): once a request with an upload has completed, the
\* temporary reference file made for it does not exist.
C9_UploadRemoved ==
  \A r \in Reqs :
    (Completed(r) /\ custom_wav_path[r] # NoUpload) => uploads[custom_wav_path[r]] # r

\* C10 (the claim as stated): the file at a final path is created once and never
\* opened for writing again: at most one request ever wrote it.
C10_WriteOnce == \A p \in DOMAIN cache : Cardinality(cache[p].by) <= 1

(***************************************************************************)
(* Two requests with named voices, parsed and about to be dispatched.      *)
(* The voices cover the cases of lines 234-239: a mapped voice whose file  *)
(* exists, a mapped voice whose file is missing, unknown voices, and two   *)
(* spellings of one name.                                                  *)
(***************************************************************************)
NamedVoices ==
  {<<"C">>, <<"c">>, <<"b", "c">>, <<"a", "l", "l", "o", "y">>, <<"e", "c", "h", "o">>}

NamedPayloads == {Request(t, v, f, FALSE) : t \in Texts, v \in NamedVoices, f \in Formats}

\* the first two requests
Pair == {r \in Reqs : r <= 2}

InitNamed ==
  /\ tts_hot_worker \in BOOLEAN
  /\ model_lock = FALSE
  /\ \E f \in [Pair -> NamedPayloads] :
       req = [r \in Reqs |-> IF r \in Pair THEN f[r] ELSE None]
  /\ pc = [r \in Reqs |-> IF r \in Pair THEN "parsed" ELSE "idle"]
  /\ custom_wav_path = [r \in Reqs |-> NoUpload]
  /\ lane = [r \in Reqs |-> "none"]
  /\ thr = [r \in Reqs |-> "none"]
  /\ exc = [r \in Reqs |-> None]
  /\ response = [r \in Reqs |-> NoResponse]
  /\ temp_wav = [r \in Reqs |-> FALSE]
  /\ rm_errors = [r \in Reqs |-> {}]
  /\ uploads = [n \in TmpNames |-> 0]
  /\ cache = <<>>

\* the steps of a request after it was parsed
Step(r) ==
  \/ CacheHit(r)
  \/ RouteWarm(r)
  \/ RouteCold(r)
  \/ LaneReturn(r)
  \/ HotRaise(r)
  \/ ColdExitNonZero(r)
  \/ LaneDone(r)
  \/ LaneFailed(r)
  \/ ConvOpen(r)
  \/ ConvClose(r)
  \/ ConvFail(r)
  \/ ConvDone(r)
  \/ ConvFailed(r)

NextNamed == \E r \in Reqs : Step(r)

SpecNamed == InitNamed /\ [][NextNamed]_vars

\* two voice names that differ at most in the case of their letters
SameIgnoringCase(v, w) ==
  /\ Len(v) = Len(w)
  /\ \A i \in 1..Len(v) : LowerChar(v[i]) = LowerChar(w[i])

\* two requests with named voices that agree on text, voice (case ignored), speed,
\* format and language; the active model is one per process
SameRequest(q1, q2) ==
  /\ q1.input = q2.input
  /\ SameIgnoringCase(q1.voice, q2.voice)
  /\ q1.speed = q2.speed
  /\ q1.response_format = q2.response_format
  /\ lang(q1) = lang(q2)

Stage(p) ==
  CASE p = "idle" -> 0
    [] p = "parsed" -> 1
    [] p \in {"warm", "cold"} -> 2
    [] p = "conv" -> 3
    [] OTHER -> 4

\* C12: a handler never goes back; a lane call starts only in the step that leaves
\* the cache check, so once per request, and the lane chosen there is never changed;
\* convert_audio starts only in the step that follows a lane call that returned, so
\* once; and when a call has raised, the next step of the handler ends the request
\* as Failed with that exception's message, without starting any other call.
C12_NoRetryNoFallback ==
  [][\A r \in Reqs :
       /\ Stage(pc'[r]) >= Stage(pc[r])
       /\ lane[r] # "none" => lane'[r] = lane[r]
       /\ (thr'[r] \in {"hot", "cold"} /\ thr'[r] # thr[r])
            => (Stage(pc[r]) = 1 /\ Stage(pc'[r]) = 2 /\ lane[r] = "none")
       /\ (thr'[r] = "convert" /\ thr[r] # "convert")
            => (Stage(pc[r]) = 2 /\ Stage(pc'[r]) = 3 /\ thr[r] = "ok")
       /\ (thr[r] = "err" /\ thr'[r] # "err")
            => (/\ pc'[r] = "failed"
                /\ thr'[r] = "none"
                /\ response'[r] = HTTPException(exc[r]))
       /\ Completed(r) => (pc'[r] = pc[r] /\ thr'[r] = "none")]_vars

\* C12 witness: a request whose warm call raised ended as Failed with the message of
\* that exception, and another request failed in its cold lane or its transcoding.
C12_Witness ==
  \E r, s \in Reqs :
    /\ pc[r] = "failed" /\ lane[r] = "warm" /\ exc[r] \in HotErrors
    /\ response[r] = HTTPException(exc[r])
    /\ pc[s] = "failed" /\ lane[s] = "cold"

(***************************************************************************)
(* Scheduling: the event loop resumes every handler that can run, and      *)
(* every call handed to a worker thread returns or raises.                 *)
(***************************************************************************)
Fairness == \A r \in Reqs : WF_vars(Step(r))

SpecFair == Spec /\ Fairness

\* a request that was dispatched and has not been answered
InFlight(r) == pc[r] \in {"parsed", "warm", "cold", "conv"}

\* C13: a request in flight always has a step of its own it can take, whatever the
\* state of the lock and of the other requests (a parsed request can return its
\* cache hit or take a lane even while another request holds the lock), and every
\* request that was dispatched eventually ends as Done or Failed.
C13_Termination ==
  /\ [](\A r \in Reqs : InFlight(r) => ENABLED Step(r))
  /\ [](\A r \in Reqs :
          (pc[r] = "parsed" /\ model_lock)
            => ENABLED (CacheHit(r) \/ RouteCold(r)))
  /\ \A r \in Reqs : InFlight(r) ~> Completed(r)

\* C13 witness: with the engine loaded, a request went through the cold lane and was
\* answered while another request is still inside its warm call, holding the lock.
C13_Witness ==
  \E r, s \in Reqs :
    /\ tts_hot_worker /\ model_lock
    /\ pc[s] = "warm" /\ thr[s] = "hot"
    /\ lane[r] = "cold" /\ Completed(r)

\* C14: a parsed request whose file is not cached can take the warm lane exactly
\* when the engine is loaded and the lock is free, and the cold lane exactly
\* otherwise, whether its voice resolved to its mapped reference or fell back to the
\* default; and the lane it takes in the step that leaves the cache check is the
\* warm one exactly when the engine was loaded and the lock free in that step.
C14_RoutingIgnoresResolution ==
  /\ [](\A r \in Pair, fb \in BOOLEAN :
          (pc[r] = "parsed" /\ ~exists(final(r)) /\ fell_back(req[r]) = fb)
            => (/\ ENABLED RouteWarm(r) <=> (tts_hot_worker /\ ~model_lock)
                /\ ENABLED RouteCold(r) <=> ~(tts_hot_worker /\ ~model_lock)))
  /\ [][\A r \in Pair, fb \in BOOLEAN :
          (pc[r] = "parsed" /\ pc'[r] # "parsed" /\ ~exists(final(r))
             /\ fell_back(req[r]) = fb)
            => (/\ lane'[r] \in {"warm", "cold"}
                /\ lane'[r] = "warm" <=> (tts_hot_worker /\ ~model_lock))]_vars

\* C14 witness: a request whose voice fell back and a request whose voice resolved
\* to its mapped file have both taken the warm lane.
C14_Witness ==
  \E r, s \in Pair :
    /\ fell_back(req[r]) /\ lane[r] = "warm"
    /\ ~fell_back(req[s]) /\ lane[s] = "warm"

\* the default reference, os.path.join(VOICE_ASSET_DIR, VOICE_MAP["alloy"])
DefaultReference == path_join(VOICE_ASSET_DIR, VOICE_MAP["alloy"])

\* the messages a lane or the transcoder can fail with
CallErrors ==
  HotErrors \cup ColdErrors
    \cup {missing_input(f) : f \in Formats}
    \cup {convert_error(f, e) : f \in Formats, e \in Stderrs}

\* C15: for a request whose named voice is unknown, or known with its file missing,
\* the reference handed to the lane is the default one, which exists; while it is
\* parsed it can go on to the cache hit or to a lane; and if it ends as Failed it had
\* started a lane and reports the failure of a lane or transcoder call.
C15_FallbackNonFatal ==
  \A r \in Pair :
    fell_back(req[r])
    => (/\ speaker_wav(req[r], custom_wav_path[r]) = DefaultReference
        /\ DefaultReference \in VoiceFiles
        /\ pc[r] = "parsed" => ENABLED (CacheHit(r) \/ RouteWarm(r) \/ RouteCold(r))
        /\ pc[r] = "failed" => (/\ lane[r] \in {"warm", "cold"}
                                /\ exc[r] \in CallErrors
                                /\ response[r] = HTTPException(exc[r])))

\* C15 witness: a request with an unknown voice was synthesized and answered with its
\* file, and a request with a known voice whose file is missing has taken a lane.
C15_Witness ==
  \E r, s \in Pair :
    /\ lower(req[r].voice) \notin DOMAIN VOICE_MAP
    /\ response[r].status = 200 /\ response[r].line = 267
    /\ lower(req[s].voice) \in DOMAIN VOICE_MAP /\ fell_back(req[s])
    /\ lane[s] \in {"warm", "cold"}

\* C16: in the step in which a handler runs its cleanup, whichever of the removals
\* raise, a request whose last call returned ends as Done, answered with its file,
\* which exists, and a request whose last call raised ends as Failed, answered with
\* the message of that call's exception; nothing else of the outcome changes later.
C16_CleanupKeepsOutcome ==
  [][\A r \in Reqs :
       /\ (InFlight(r) /\ Completed(r)')
            => (/\ rm_errors'[r] \subseteq {"temp_wav", "custom_wav_path"}
                /\ thr[r] = "ok"
                     => (/\ pc'[r] = "done"
                         /\ response'[r] = FileResponse(final(r), 267)
                         /\ final(r) \in DOMAIN cache')
                /\ thr[r] = "err"
                     => (/\ pc'[r] = "failed"
                         /\ exc[r] \in CallErrors
                         /\ response'[r] = HTTPException(exc[r])))
       /\ Completed(r) => (pc'[r] = pc[r] /\ response'[r] = response[r])]_vars

\* C16 witness: a request is Done and a request is Failed, and in the cleanup of each
\* of them a removal raised.
C16_Witness ==
  \E r, s \in Reqs :
    /\ pc[r] = "done" /\ rm_errors[r] # {} /\ response[r].status = 200
    /\ pc[s] = "failed" /\ rm_errors[s] # {} /\ response[s].status = 500

(***************************************************************************)
(* Cancellation.  The task of a handler that is suspended in one of its    *)
(* awaits (lines 252, 254, 256) is cancelled: CancelledError is raised at  *)
(* the await.  It is not an Exception, so line 257 does not catch it; the  *)
(* finally of line 253 releases the lock, the finally of lines 258-265     *)
(* cleans up, and no answer is sent.  The function handed to the worker    *)
(* thread is not interrupted and goes on to its end.                       *)
(***************************************************************************)
Cancel(r) ==
  /\ pc[r] \in {"warm", "cold", "conv"}
  /\ model_lock' = lock_after_lane(pc[r], "cancelled")
  /\ Finally(r)
  /\ pc' = [pc EXCEPT ![r] = "cancelled"]
  /\ UNCHANGED <<tts_hot_worker, req, custom_wav_path, lane, thr, exc, response, cache>>

NextCancel == Next \/ \E r \in Reqs : Cancel(r)

SpecCancel == Init /\ [][NextCancel]_vars

\* C17: while the worker thread of a request is inside run_tts_hot_lane the lock is
\* held and the handler of that request has not run its cleanup, also after its task
\* was cancelled; so at most one thread is inside the engine.
C17_LockCoversWork ==
  /\ \A r \in Reqs : thr[r] = "hot" => (model_lock /\ pc[r] = "warm")
  /\ Cardinality({r \in Reqs : thr[r] = "hot"}) <= 1

\* two dispatched requests that differ in text, voice identifier, speed, format or
\* language (the active model is one per process)
Differ(r, s) ==
  \/ req[r].input # req[s].input
  \/ voice_id(req[r], custom_wav_path[r]) # voice_id(req[s], custom_wav_path[s])
  \/ req[r].speed # req[s].speed
  \/ req[r].response_format # req[s].response_format
  \/ lang(req[r]) # lang(req[s])

\* C18: two dispatched requests that differ in one of these fields have different
\* strings to digest and different final paths, and a request answered from the
\* cache is never given a file that a request differing from it has written.
C18_DistinctFingerprints ==
  \A r, s \in Reqs :
    (pc[r] # "idle" /\ pc[s] # "idle" /\ Differ(r, s))
    => (/\ fingerprint(req[r], custom_wav_path[r]) # fingerprint(req[s], custom_wav_path[s])
        /\ final(r) # final(s)
        /\ (response[r].status = 200 /\ response[r].line = 246)
             => s \notin cache[final(r)].by)

=============================================================================
